---------------------------- MODULE Spec2Model ----------------------------
(***************************************************************************)
(* A model of batch_extract_figs_captions.py: the fuzzy citation matcher,  *)
(* the caption extractor, the image extractor and the main pipeline that   *)
(* assembles the composite document and the mapping table.                 *)
(*                                                                         *)
(* Strings are sequences.  For the matcher a string is a sequence of       *)
(* characters (one-character strings).  For the caption extractor a text   *)
(* is a sequence of lexemes: the words the regular expressions name        *)
(* ("Figure", "Fig.", the section markers) and single characters.          *)
(***************************************************************************)
EXTENDS Integers, Sequences, FiniteSets, TLC

\* ------------------------------------------------------------------ bounds
MaxTarget == 2      \* longest target string given to best_fuzzy_match
MaxPool == 2        \* most candidates in a pool
MaxText == 4        \* most pieces of a text given to extract_captions
MaxFiles == 2       \* most input files of a batch run
MaxPages == 2       \* most pages of a document in a single-file run
MaxPerPage == 1     \* most embedded images on a page in a single-file run
MaxCaps == 2        \* most captions of a document in a single-file run

\* ------------------------------------------------------- program constants
MIN_W == 500
MIN_H == 500
MIN_AREA == 300000
\* MATCH_THRESHOLD = 0.55, in hundredths
MATCH_THRESHOLD == 55

None == "None"

\* ------------------------------------------------------------ sequences
Max2(a, b) == IF a >= b THEN a ELSE b

RECURSIVE Flatten(_)
Flatten(ss) == IF ss = <<>> THEN <<>> ELSE Head(ss) \o Flatten(Tail(ss))

Range(s) == {s[k] : k \in DOMAIN s}

\* the sequences over S of length at most n
SeqUpTo(S, n) == UNION {[1..k -> S] : k \in 0..n}

\* ---------------------------------------------------- normalize_for_match
\* The characters of the matcher's strings: two lower-case letters, an
\* upper-case letter, one punctuation character of the pattern's class and
\* the space.
Chars == {"a", "b", "A", "-", " "}
PunctChars == {"-"}
SpaceChars == {" "}

Lower(c) == IF c = "A" THEN "a" ELSE c

\* re.sub(r"[class]+", " ", s): every maximal run of characters of cls
\* becomes one space
RECURSIVE SubRuns(_, _)
SubRuns(s, cls) ==
  IF s = <<>> THEN <<>>
  ELSE IF Head(s) \in cls
       THEN IF Len(s) > 1 /\ s[2] \in cls
            THEN SubRuns(Tail(s), cls)
            ELSE <<" ">> \o SubRuns(Tail(s), cls)
       ELSE <<Head(s)>> \o SubRuns(Tail(s), cls)

RECURSIVE LStrip(_, _)
LStrip(s, cls) ==
  IF s # <<>> /\ Head(s) \in cls THEN LStrip(Tail(s), cls) ELSE s

RECURSIVE RStrip(_, _)
RStrip(s, cls) ==
  IF s # <<>> /\ s[Len(s)] \in cls
  THEN RStrip(SubSeq(s, 1, Len(s) - 1), cls) ELSE s

Strip(s, cls) == RStrip(LStrip(s, cls), cls)

normalize_for_match(s) ==
  LET lowered == [k \in DOMAIN s |-> Lower(s[k])]
      nopunct == SubRuns(lowered, PunctChars)
  IN  Strip(SubRuns(nopunct, SpaceChars), SpaceChars)

\* ------------------------------------------- difflib.SequenceMatcher.ratio
\* a[i .. i+k-1] = b[j .. j+k-1]
BlockAt(a, b, i, j, k) == \A d \in 0..(k - 1) : a[i + d] = b[j + d]

\* find_longest_match(alo, ahi, blo, bhi) on the half-open ranges
\* a[alo..ahi-1], b[blo..bhi-1]: the longest common block, the one starting
\* earliest in a and then earliest in b; size 0 when there is none.
FindLongestMatch(a, b, alo, ahi, blo, bhi) ==
  LET blocks == {t \in (alo..(ahi - 1)) \X (blo..(bhi - 1)) \X (1..(ahi - alo)) :
                    /\ t[1] + t[3] <= ahi
                    /\ t[2] + t[3] <= bhi
                    /\ BlockAt(a, b, t[1], t[2], t[3])}
  IN  IF blocks = {} THEN <<alo, blo, 0>>
      ELSE CHOOSE t \in blocks :
             \A u \in blocks :
                \/ t[3] > u[3]
                \/ t[3] = u[3] /\ t[1] < u[1]
                \/ t[3] = u[3] /\ t[1] = u[1] /\ t[2] <= u[2]

\* the sum of the sizes of get_matching_blocks()
RECURSIVE Matches(_, _, _, _, _, _)
Matches(a, b, alo, ahi, blo, bhi) ==
  LET m == FindLongestMatch(a, b, alo, ahi, blo, bhi)
  IN  IF m[3] = 0 THEN 0
      ELSE Matches(a, b, alo, m[1], blo, m[2]) + m[3]
           + Matches(a, b, m[1] + m[3], ahi, m[2] + m[3], bhi)

\* A score is the fraction num/den; ratio() is 2.0*matches/length, and 1.0
\* when both strings are empty.
Zero == [num |-> 0, den |-> 1]
Gt(x, y) == x.num * y.den > y.num * x.den
Geq(x, y) == x.num * y.den >= y.num * x.den
SameScore(x, y) == x.num * y.den = y.num * x.den

Ratio(a, b) ==
  IF Len(a) + Len(b) = 0 THEN [num |-> 1, den |-> 1]
  ELSE [num |-> 2 * Matches(a, b, 1, Len(a) + 1, 1, Len(b) + 1),
        den |-> Len(a) + Len(b)]

Score(target, cand) ==
  Ratio(normalize_for_match(target), normalize_for_match(cand))

\* -------------------------------------------------------- best_fuzzy_match
\* MatchLoop with `score >= best_score`: the last of equal candidates wins
RECURSIVE MatchLoop_LastWins(_, _, _, _)
MatchLoop_LastWins(target, pool, best, best_score) ==
  IF pool = <<>> THEN <<best, best_score>>
  ELSE LET score == Score(target, Head(pool))
       IN  IF Geq(score, best_score)
           THEN MatchLoop_LastWins(target, Tail(pool), Head(pool), score)
           ELSE MatchLoop_LastWins(target, Tail(pool), best, best_score)

\* the loop over the pool, from (best, best_score)
RECURSIVE MatchLoop(_, _, _, _)
MatchLoop(target, pool, best, best_score) ==
  IF pool = <<>> THEN <<best, best_score>>
  ELSE LET score == Score(target, Head(pool))
       IN  IF Gt(score, best_score)
           THEN MatchLoop(target, Tail(pool), Head(pool), score)
           ELSE MatchLoop(target, Tail(pool), best, best_score)

\* threshold is a fraction too; the result is <<candidate, score>>
best_fuzzy_match(target, pool, threshold) ==
  IF target = <<>> THEN <<(<<>>), Zero>>
  ELSE LET r == MatchLoop(target, pool, <<>>, Zero)
       IN  IF Geq(r[2], threshold) THEN r ELSE <<(<<>>), Zero>>

\* -------------------------------------------------------- extract_captions
\* The lexemes of a text.  "1" stands for a digit, "a" for a letter other
\* than S, " " for a blank or tab and "\n" for a line break; the words are
\* the ones the patterns spell out.
Markers == {"STAR*METHODS", "REFERENCES", "Article"}
Lexemes == {"Figure", "Fig.", " ", "\n", "1", "a", "S", ".", ":"} \cup Markers
WS == {" ", "\n"}
Digits == {"1"}
Letters == {"a", "S"}
Delims == {".", ":"}
\* the lexemes whose last character is a word character (for \b)
WordEnd == {"Figure", "1", "a", "S"} \cup Markers

At(t, k) == IF k \in DOMAIN t THEN t[k] ELSE None

\* the first position at or after k that holds no lexeme of cls
RECURSIVE SkipAll(_, _, _)
SkipAll(t, k, cls) == IF At(t, k) \in cls THEN SkipAll(t, k + 1, cls) ELSE k

\* re.sub(r"\bFig\.\s*", "Figure ", full_text), from position k
RECURSIVE SubFig(_, _)
SubFig(t, k) ==
  IF k > Len(t) THEN <<>>
  ELSE IF t[k] = "Fig." /\ At(t, k - 1) \notin WordEnd
       THEN <<"Figure", " ">> \o SubFig(t, SkipAll(t, k + 1, WS))
       ELSE <<t[k]>> \o SubFig(t, k + 1)

NormalizeFig(t) == SubFig(t, 1)

\* Figure\s+[S]?\d+ at position i: the position after it, or 0
FigNumEnd(t, i) ==
  IF At(t, i) # "Figure" \/ At(t, i + 1) \notin WS THEN 0
  ELSE LET j == SkipAll(t, i + 1, WS)
           d == IF At(t, j) = "S" THEN j + 1 ELSE j
       IN  IF At(t, d) \in Digits THEN SkipAll(t, d, Digits) ELSE 0

\* \s*[\.:] at position j: the position after it, or 0
DelimEnd(t, j) ==
  LET d == SkipAll(t, j, WS)
  IN  IF At(t, d) \in Delims THEN d + 1 ELSE 0

\* Figure\s+[S]?\d+[A-Za-z]?(?:\.[A-Za-z])?\s*[\.:] at position i: the
\* position after the label, or 0 when no label starts at i
LabelEnd(t, i) ==
  LET n == FigNumEnd(t, i)
      l == IF At(t, n) \in Letters THEN n + 1 ELSE n
      sub == IF At(t, l) = "." /\ At(t, l + 1) \in Letters
             THEN DelimEnd(t, l + 2) ELSE 0
  IN  IF n = 0 THEN 0
      ELSE IF sub # 0 THEN sub ELSE DelimEnd(t, l)

\* the lookahead (?=(?:\nFigure\s+[S]?\d+)|\nSTAR*METHODS|\nREFERENCES|
\* \nArticle|\Z) at position j
Lookahead(t, j) ==
  \/ j = Len(t) + 1
  \/ /\ At(t, j) = "\n"
     /\ \/ At(t, j + 1) \in Markers
        \/ FigNumEnd(t, j + 1) # 0

\* LazyEnd with a greedy `.*`: the last position where the lookahead holds
LazyEnd_Greedy(t, j) == Len(t) + 1

\* .*? up to the lookahead: the first position at or after j where it holds
RECURSIVE LazyEnd(_, _)
LazyEnd(t, j) == IF Lookahead(t, j) THEN j ELSE LazyEnd(t, j + 1)

\* pattern.finditer(normalized) from position pos: the matches <<start,
\* end>>, each group 1 being t[start .. end-1]
RECURSIVE FindIter(_, _)
FindIter(t, pos) ==
  IF pos > Len(t) THEN <<>>
  ELSE IF LabelEnd(t, pos) = 0 THEN FindIter(t, pos + 1)
       ELSE LET e == LazyEnd(t, LabelEnd(t, pos))
            IN  <<(<<pos, e>>)>> \o FindIter(t, e)

\* re.sub(r"[ \t]+\n", "\n", cap)
RECURSIVE SubBlankNL(_)
SubBlankNL(s) ==
  IF s = <<>> THEN <<>>
  ELSE IF Head(s) = " "
       THEN LET r == SkipAll(s, 1, {" "})
            IN  IF At(s, r) = "\n" THEN SubBlankNL(SubSeq(s, r, Len(s)))
                ELSE SubSeq(s, 1, r - 1) \o SubBlankNL(SubSeq(s, r, Len(s)))
       ELSE <<Head(s)>> \o SubBlankNL(Tail(s))

\* re.sub(r"\n{3,}", "\n\n", cap)
RECURSIVE SubNL3(_)
SubNL3(s) ==
  IF s = <<>> THEN <<>>
  ELSE IF Head(s) = "\n"
       THEN LET r == SkipAll(s, 1, {"\n"})
            IN  (IF r - 1 >= 3 THEN <<"\n", "\n">> ELSE SubSeq(s, 1, r - 1))
                \o SubNL3(SubSeq(s, r, Len(s)))
       ELSE <<Head(s)>> \o SubNL3(Tail(s))

CleanCaption(group) == SubNL3(SubBlankNL(Strip(group, WS)))

extract_captions(full_text) ==
  LET normalized == NormalizeFig(full_text)
      ms == FindIter(normalized, 1)
  IN  [k \in DOMAIN ms |->
         CleanCaption(SubSeq(normalized, ms[k][1], ms[k][2] - 1))]


\* ---------------------------------------------------------- extract_images
\* An embedded image as PyMuPDF delivers it: its pixel size and what
\* happens when it is rendered (fitz.Pixmap) and saved (pix.save).
Image(w, h, outcome) == [w |-> w, h |-> h, outcome |-> outcome]
ImageKinds ==
  {Image(400, 800, "ok"), Image(800, 400, "ok"), Image(500, 500, "ok"),
   Image(500, 600, "ok"), Image(500, 600, "render_fails"),
   Image(500, 600, "save_fails")}

\* the documents of at most np pages with at most ni images a page, the
\* images drawn from kinds: a document is the sequence of its pages, a page
\* the sequence of its images
DocsOf(np, ni, kinds) == SeqUpTo(SeqUpTo(kinds, ni), np)

\* the decimal digits of n, most significant first
RECURSIVE DigitsOf(_)
DigitsOf(n) == IF n < 10 THEN <<n>> ELSE DigitsOf(n \div 10) \o <<n % 10>>

\* {n:02d}
Pad2(n) == IF n < 10 THEN <<0, n>> ELSE DigitsOf(n)

\* f"p{pi:02d}_img{ii:02d}.png"
FileName(pi, ii) == <<"p">> \o Pad2(pi) \o <<"_img">> \o Pad2(ii) \o <<".png">>

\* LargeEnough without the area limit
LargeEnough_NoArea(w, h) == w >= MIN_W /\ h >= MIN_H

\* the size filter of line 138
LargeEnough(w, h) == w >= MIN_W /\ h >= MIN_H /\ w * h >= MIN_AREA

\* the body of the inner loop for image ii of page pi: what it appends to
\* paths.  A failure of the rendering or of the saving is caught and the
\* image skipped.
KeepImage(img) ==
  /\ img.outcome # "render_fails"
  /\ LargeEnough(img.w, img.h)
  /\ img.outcome # "save_fails"

RECURSIVE PageLoop(_, _, _, _)
PageLoop(page, out_dir, pi, ii) ==
  IF ii > Len(page) THEN <<>>
  ELSE (IF KeepImage(page[ii])
        THEN <<[dir |-> out_dir, fn |-> FileName(pi, ii)]>> ELSE <<>>)
       \o PageLoop(page, out_dir, pi, ii + 1)

RECURSIVE DocLoop(_, _, _)
DocLoop(doc, out_dir, pi) ==
  IF pi > Len(doc) THEN <<>>
  ELSE PageLoop(doc[pi], out_dir, pi, 1) \o DocLoop(doc, out_dir, pi + 1)

\* the paths returned, each the path of a file pix.save wrote
extract_images(doc, out_dir) == DocLoop(doc, out_dir, 1)

\* -------------------------------------------------------- extract_pdf_title
\* meta is the metadata title; first is what the first page gives: kind
\* "raise" (any exception inside the try), "nospans", "boilerplate" (the
\* candidate starts with one of bad_starts) or "candidate", with the
\* candidate text.  The result None is the empty string here: main reads
\* the result as `extract_pdf_title(pdf) or ""`, and no title returned is
\* empty.
FirstPage(kind, text) == [kind |-> kind, text |-> text]

extract_pdf_title(meta, first) ==
  IF Strip(meta, SpaceChars) # <<>> THEN Strip(meta, SpaceChars)
  ELSE IF first.kind = "candidate" /\ first.text # <<>> THEN first.text
       ELSE <<>>

\* ------------------------------------------------------------------- main
VARIABLES
  pc,             \* where main is
  lim,            \* the limits of this run: files, pages, per_page, caps
  found,          \* what Path(pdf_root).rglob("*.pdf") finds
  pdf_files,      \* sorted(found)
  idx,            \* the loop variable of line 181
  citations_read, \* whether read_citations was called
  citations,      \* its result
  open_handles,   \* the indexes whose fitz document is open
  detected_title, best_cit, score,
  captions, images,
  i,              \* the loop variable of line 207
  attempts,       \* the add_picture calls made for the image of pair i
  slot,           \* Len(docx) when the image of pair i was begun
  docx,           \* the python-docx document: its body elements
  mapping_rows,
  dirs,           \* the image directories created
  saved,          \* the image files written, in order: path and origin
  outputs,        \* the files written at the end
  printed,        \* the lines printed
  call, ret       \* a single function call: its arguments and its result

mainvars == <<pc, lim, found, pdf_files, idx, citations_read, citations,
              open_handles, detected_title, best_cit, score, captions,
              images, i, attempts, slot, docx, mapping_rows, dirs, saved,
              outputs, printed>>
vars == <<mainvars, call, ret>>

\* A path under the root is a sub-folder and a base name, both numbered in
\* their alphabetical order; Path.__lt__ compares the parts in turn.
Dirs == {1, 2}
Stems == {1, 2}
AllPaths == {p \in [dir : Dirs, stem : Stems] : ~(p.dir = 2 /\ p.stem = 2)}
PathLess(p, q) == p.dir < q.dir \/ (p.dir = q.dir /\ p.stem < q.stem)

\* Sorted in descending order
RECURSIVE Sorted_Descending(_)
Sorted_Descending(S) ==
  IF S = {} THEN <<>>
  ELSE LET m == CHOOSE p \in S : \A q \in S \ {p} : PathLess(q, p)
       IN  <<m>> \o Sorted_Descending(S \ {m})

\* sorted(S) for a set of paths
RECURSIVE Sorted(_)
Sorted(S) ==
  IF S = {} THEN <<>>
  ELSE LET m == CHOOSE p \in S : \A q \in S \ {p} : PathLess(p, q)
       IN  <<m>> \o Sorted(S \ {m})

\* the titles and the citation lists of the runs
TitleAB == <<"a", "b">>
MetaTitles == {<<>>, <<" ">>, TitleAB}
FirstPages == {FirstPage("raise", <<>>), FirstPage("boilerplate", <<>>),
               FirstPage("candidate", <<"b">>)}
CitationLists == {<<>>, <<TitleAB>>}

\* the main images of the runs: one that passes the filter, one that does not
MainKinds == {Image(500, 600, "ok"), Image(500, 500, "ok")}

\* a text of k caption lines
RECURSIVE TextOf(_)
TextOf(k) ==
  IF k = 0 THEN <<"a">>
  ELSE TextOf(k - 1) \o <<"\n", "Figure", " ", "1", ".", "a">>

\* the elements of the document body
El(k, x, y) == [k |-> k, x |-> x, y |-> y]

\* write_citation(doc, name, matched): one paragraph
write_citation(name, matched) == El("citation", name, matched)

\* f"{score:.2f}", in hundredths: the nearest, the even one on a tie
Format2(s) ==
  LET q == (s.num * 100) \div s.den
      r == (s.num * 100) % s.den
  IN  IF 2 * r > s.den \/ (2 * r = s.den /\ q % 2 = 1) THEN q + 1 ELSE q

OrNA(str) == IF str = <<>> THEN <<"N/A">> ELSE str

Header == <<"pdf_path", "pdf_title_detected", "matched_citation", "score">>

\* Pairs as the shorter of the two lists
Pairs_Min(imgs, caps) == IF Len(imgs) <= Len(caps) THEN Len(imgs) ELSE Len(caps)

\* pairs = max(len(images), len(captions))
Pairs(imgs, caps) == Max2(Len(imgs), Len(caps))

BatchLimits == [files |-> MaxFiles, pages |-> 1, per_page |-> 1, caps |-> 1]
FileLimits ==
  [files |-> 1, pages |-> MaxPages, per_page |-> MaxPerPage, caps |-> MaxCaps]

NoCall == [fn |-> "none"]

InitMain(limits) ==
  /\ pc = "start"
  /\ lim = limits
  /\ found \in {S \in SUBSET AllPaths : Cardinality(S) <= limits.files}
  /\ pdf_files = <<>>
  /\ idx = 0
  /\ citations_read = FALSE
  /\ citations = <<>>
  /\ open_handles = {}
  /\ detected_title = <<>>
  /\ best_cit = <<>>
  /\ score = Zero
  /\ captions = <<>>
  /\ images = <<>>
  /\ i = 0
  /\ attempts = <<>>
  /\ slot = 0
  /\ docx = <<>>
  /\ mapping_rows = <<>>
  /\ dirs = {}
  /\ saved = <<>>
  /\ outputs = [docx_saved |-> FALSE, docx |-> <<>>,
                csv_saved |-> FALSE, csv |-> <<>>]
  /\ printed = <<>>
  /\ call = NoCall
  /\ ret = NoCall


\* Start without the early return
Start_NoEarlyReturn ==
  /\ pc = "start"
  /\ pdf_files' = Sorted(found)
  /\ pc' = "prepare"
  /\ UNCHANGED <<lim, found, idx, citations_read, citations, open_handles,
                 detected_title, best_cit, score, captions, images, i,
                 attempts, slot, docx, mapping_rows, dirs, saved, outputs,
                 printed, call, ret>>

\* lines 159-162: the search, and the early return when it finds nothing
Start ==
  /\ pc = "start"
  /\ pdf_files' = Sorted(found)
  /\ IF found = {}
     THEN /\ printed' = Append(printed, <<"No PDFs found under:", "pdf_root">>)
          /\ pc' = "done"
     ELSE /\ printed' = printed
          /\ pc' = "prepare"
  /\ UNCHANGED <<lim, found, idx, citations_read, citations, open_handles,
                 detected_title, best_cit, score, captions, images, i,
                 attempts, slot, docx, mapping_rows, dirs, saved, outputs,
                 call, ret>>

\* lines 164-179: the citations, the empty document, the header row
Prepare ==
  /\ pc = "prepare"
  /\ citations_read' = TRUE
  /\ citations' \in CitationLists
  /\ docx' = <<El("heading1", "Combined Figures & Captions", 1),
               El("para", "Automatically generated.", 0)>>
  /\ mapping_rows' = <<Header>>
  /\ idx' = 1
  /\ pc' = "open"
  /\ UNCHANGED <<lim, found, pdf_files, open_handles, detected_title,
                 best_cit, score, captions, images, i, attempts, slot, dirs,
                 saved, outputs, printed, call, ret>>

\* line 182: fitz.open, which raises on a file it cannot read; nothing in
\* main catches it
Open ==
  /\ pc = "open"
  /\ \E ok \in BOOLEAN :
       IF ok THEN /\ open_handles' = open_handles \cup {idx}
                  /\ pc' = "title"
       ELSE /\ open_handles' = open_handles
            /\ pc' = "aborted"
  /\ UNCHANGED <<lim, found, pdf_files, idx, citations_read, citations,
                 detected_title, best_cit, score, captions, images, i,
                 attempts, slot, docx, mapping_rows, dirs, saved, outputs,
                 printed, call, ret>>

\* lines 185-189: the title, its match and the row of the mapping table
Title ==
  /\ pc = "title"
  /\ \E meta \in MetaTitles, first \in FirstPages :
       LET title == extract_pdf_title(meta, first)
           m == best_fuzzy_match(title, citations,
                                 [num |-> MATCH_THRESHOLD, den |-> 100])
       IN  /\ detected_title' = title
           /\ best_cit' = m[1]
           /\ score' = m[2]
           /\ mapping_rows' = Append(mapping_rows,
                <<pdf_files[idx], OrNA(title), OrNA(m[1]), Format2(m[2])>>)
  /\ pc' = "text"
  /\ UNCHANGED <<lim, found, pdf_files, idx, citations_read, citations,
                 open_handles, captions, images, i, attempts, slot, docx,
                 dirs, saved, outputs, printed, call, ret>>

\* lines 192-193: extract_full_text, which raises when a page cannot be
\* read (nothing catches it), then extract_captions
Text ==
  /\ pc = "text"
  /\ \/ /\ \E k \in 0..lim.caps : captions' = extract_captions(TextOf(k))
        /\ pc' = "images"
     \/ /\ captions' = captions
        /\ pc' = "aborted"
  /\ UNCHANGED <<lim, found, pdf_files, idx, citations_read, citations,
                 open_handles, detected_title, best_cit, score, images, i,
                 attempts, slot, docx, mapping_rows, dirs, saved, outputs,
                 printed, call, ret>>

\* lines 194-195: img_dir = images_root / pdf_path.stem, extract_images
Images ==
  /\ pc = "images"
  /\ \E doc \in DocsOf(lim.pages, lim.per_page, MainKinds) :
       LET img_dir == pdf_files[idx].stem
           paths == extract_images(doc, img_dir)
       IN  /\ images' = paths
           /\ dirs' = dirs \cup {img_dir}
           /\ saved' = saved \o
                [k \in DOMAIN paths |-> [path |-> paths[k], pdf |-> pdf_files[idx]]]
  /\ pc' = "section"
  /\ UNCHANGED <<lim, found, pdf_files, idx, citations_read, citations,
                 open_handles, detected_title, best_cit, score, captions, i,
                 attempts, slot, docx, mapping_rows, outputs, printed, call,
                 ret>>

\* matched = bool(best_cit); citation_name = best_cit if matched else stem
Matched == best_cit # <<>>
CitationName == IF Matched THEN best_cit ELSE <<"stem", pdf_files[idx].stem>>

\* lines 198-206: the page break, the heading, and the block of a file
\* without images and captions
Section ==
  /\ pc = "section"
  /\ LET head == (IF idx > 1 THEN <<El("page_break", 0, 0)>> ELSE <<>>)
                 \o <<El("heading2", idx, pdf_files[idx])>>
     IN  IF Pairs(images, captions) = 0
         THEN /\ docx' = docx \o head
                          \o <<write_citation(CitationName, Matched),
                               El("no_figures", 0, 0)>>
              /\ pc' = "info"
         ELSE /\ docx' = docx \o head
              /\ pc' = "pair"
  /\ i' = 0
  /\ UNCHANGED <<lim, found, pdf_files, idx, citations_read, citations,
                 open_handles, detected_title, best_cit, score, captions,
                 images, attempts, slot, mapping_rows, dirs, saved, outputs,
                 printed, call, ret>>

\* lines 208-211 and 222: the citation of pair i, and the placeholder when
\* there is no image i
BeginPair ==
  /\ pc = "pair"
  /\ attempts' = <<>>
  /\ slot' = Len(docx) + 1
  /\ IF i < Len(images)
     THEN /\ docx' = Append(docx, write_citation(CitationName, Matched))
          /\ pc' = "picture"
     ELSE /\ docx' = docx \o <<write_citation(CitationName, Matched),
                               El("image_not_found", 0, 0)>>
          /\ pc' = "caption"
  /\ UNCHANGED <<lim, found, pdf_files, idx, citations_read, citations,
                 open_handles, detected_title, best_cit, score, captions,
                 images, i, mapping_rows, dirs, saved, outputs, printed,
                 call, ret>>

\* AddPicture without the second attempt: the placeholder at once
AddPicture_NoRetry ==
  /\ pc = "picture"
  /\ \E ok \in BOOLEAN :
       /\ attempts' = Append(attempts, [width |-> 65, ok |-> ok])
       /\ docx' = Append(docx, IF ok THEN El("picture", images[i + 1], 65)
                               ELSE El("image_failed", images[i + 1].fn, 0))
  /\ pc' = "caption"
  /\ UNCHANGED <<lim, found, pdf_files, idx, citations_read, citations,
                 open_handles, detected_title, best_cit, score, captions,
                 images, i, slot, mapping_rows, dirs, saved, outputs,
                 printed, call, ret>>

\* lines 212-215: add_picture at 6.5 inches (tenths of an inch here)
AddPicture ==
  /\ pc = "picture"
  /\ \E ok \in BOOLEAN :
       /\ attempts' = Append(attempts, [width |-> 65, ok |-> ok])
       /\ IF ok THEN /\ docx' = Append(docx, El("picture", images[i + 1], 65))
                     /\ pc' = "caption"
          ELSE /\ docx' = docx
               /\ pc' = "retry"
  /\ UNCHANGED <<lim, found, pdf_files, idx, citations_read, citations,
                 open_handles, detected_title, best_cit, score, captions,
                 images, i, slot, mapping_rows, dirs, saved, outputs,
                 printed, call, ret>>

\* lines 216-220: add_picture at 5.5 inches, then the placeholder
RetryPicture ==
  /\ pc = "retry"
  /\ \E ok \in BOOLEAN :
       /\ attempts' = Append(attempts, [width |-> 55, ok |-> ok])
       /\ docx' = Append(docx, IF ok THEN El("picture", images[i + 1], 55)
                               ELSE El("image_failed", images[i + 1].fn, 0))
  /\ pc' = "caption"
  /\ UNCHANGED <<lim, found, pdf_files, idx, citations_read, citations,
                 open_handles, detected_title, best_cit, score, captions,
                 images, i, slot, mapping_rows, dirs, saved, outputs,
                 printed, call, ret>>

\* lines 225-235: caption i or its placeholder, and the next i
AddCaption ==
  /\ pc = "caption"
  /\ docx' = Append(docx, IF i < Len(captions)
                          THEN El("caption", captions[i + 1], 0)
                          ELSE El("caption_not_detected", 0, 0))
  /\ i' = i + 1
  /\ pc' = IF i + 1 < Pairs(images, captions) THEN "pair" ELSE "info"
  /\ UNCHANGED <<lim, found, pdf_files, idx, citations_read, citations,
                 open_handles, detected_title, best_cit, score, captions,
                 images, attempts, slot, mapping_rows, dirs, saved, outputs,
                 printed, call, ret>>

\* lines 238-241: the summary line, pdf.close(), and the next file
Close ==
  /\ pc = "info"
  /\ docx' = Append(docx, El("info", <<OrNA(detected_title), OrNA(best_cit),
                                       Format2(score)>>, 0))
  /\ open_handles' = open_handles \ {idx}
  /\ idx' = idx + 1
  /\ pc' = IF idx < Len(pdf_files) THEN "open" ELSE "save"
  /\ UNCHANGED <<lim, found, pdf_files, citations_read, citations,
                 detected_title, best_cit, score, captions, images, i,
                 attempts, slot, mapping_rows, dirs, saved, outputs, printed,
                 call, ret>>

\* lines 244-254: the document, and the table when output_csv is given
Save ==
  /\ pc = "save"
  /\ \E output_csv \in BOOLEAN :
       /\ outputs' = [docx_saved |-> TRUE, docx |-> docx,
                      csv_saved |-> output_csv,
                      csv |-> IF output_csv THEN mapping_rows ELSE <<>>]
       /\ printed' = printed \o <<(<<"Saved DOCX:", "output_docx">>)>>
                     \o (IF output_csv
                         THEN <<(<<"Saved mapping CSV:", "output_csv">>)>>
                         ELSE <<>>)
  /\ pc' = "done"
  /\ UNCHANGED <<lim, found, pdf_files, idx, citations_read, citations,
                 open_handles, detected_title, best_cit, score, captions,
                 images, i, attempts, slot, docx, mapping_rows, dirs, saved,
                 call, ret>>

Next ==
  \/ Start \/ Prepare \/ Open \/ Title \/ Text \/ Images \/ Section
  \/ BeginPair \/ AddPicture \/ RetryPicture \/ AddCaption \/ Close \/ Save

\* a batch of up to MaxFiles files, each with at most one image and caption
Init == InitMain(BatchLimits)
Spec == Init /\ [][Next]_vars

\* a run on one file of up to MaxPages pages
InitFile == InitMain(FileLimits) /\ found # {}
SpecFile == InitFile /\ [][Next]_vars


\* ------------------------------------------------- the functions on their own
\* main is not running
MainOff ==
  /\ pc = "off"
  /\ lim = BatchLimits
  /\ found = {}
  /\ pdf_files = <<>>
  /\ idx = 0
  /\ citations_read = FALSE
  /\ citations = <<>>
  /\ open_handles = {}
  /\ detected_title = <<>>
  /\ best_cit = <<>>
  /\ score = Zero
  /\ captions = <<>>
  /\ images = <<>>
  /\ i = 0
  /\ attempts = <<>>
  /\ slot = 0
  /\ docx = <<>>
  /\ mapping_rows = <<>>
  /\ dirs = {}
  /\ saved = <<>>
  /\ outputs = [docx_saved |-> FALSE, docx |-> <<>>,
                csv_saved |-> FALSE, csv |-> <<>>]
  /\ printed = <<>>

\* best_fuzzy_match on a target of at most MaxTarget characters, a pool of
\* at most MaxPool candidates and a threshold of 0, 0.55 or 1
Candidates == {<<>>, <<"a">>, <<"b">>, <<"a", "b">>, <<"-">>}
Thresholds == {Zero, [num |-> MATCH_THRESHOLD, den |-> 100],
               [num |-> 1, den |-> 1]}

InitFuzzy ==
  /\ MainOff
  /\ \E nt \in 0..MaxTarget, np \in 0..MaxPool :
       call \in [fn : {"best_fuzzy_match"}, target : [1..nt -> Chars],
                 pool : [1..np -> Candidates], threshold : Thresholds]
  /\ ret = NoCall

CallFuzzy ==
  /\ call.fn = "best_fuzzy_match"
  /\ ret.fn = "none"
  /\ LET r == best_fuzzy_match(call.target, call.pool, call.threshold)
     IN  ret' = [fn |-> "best_fuzzy_match", best |-> r[1], score |-> r[2]]
  /\ UNCHANGED <<mainvars, call>>

SpecFuzzy == InitFuzzy /\ [][CallFuzzy]_vars

\* extract_captions on a text of at most MaxText pieces
FigureLabel == <<"Figure", " ", "1", ".">>
FigureNumber == <<"Figure", " ", "1">>
Pieces == {<<"\n">>, <<" ">>, <<"a">>, <<"1">>, <<".">>, <<"Fig.">>,
           <<"REFERENCES">>, FigureLabel, FigureNumber}
Texts == {Flatten(ps) : ps \in SeqUpTo(Pieces, MaxText)}

\* the matches of pattern.finditer(normalized)
CaptionMatches(full_text) == FindIter(NormalizeFig(full_text), 1)

InitCaptions ==
  /\ MainOff
  /\ call \in [fn : {"extract_captions"}, text : Texts]
  /\ ret = NoCall

CallCaptions ==
  /\ call.fn = "extract_captions"
  /\ ret.fn = "none"
  /\ ret' = [fn |-> "extract_captions",
             matches |-> CaptionMatches(call.text),
             captions |-> extract_captions(call.text)]
  /\ UNCHANGED <<mainvars, call>>

SpecCaptions == InitCaptions /\ [][CallCaptions]_vars

\* extract_images on a document of at most MaxPages pages with at most
\* MaxPerPage images each
InitImages ==
  /\ MainOff
  /\ \E np \in 0..MaxPages :
       call \in [fn : {"extract_images"},
                 doc : [1..np -> SeqUpTo(ImageKinds, MaxPerPage)]]
  /\ ret = NoCall

CallImages ==
  /\ call.fn = "extract_images"
  /\ ret.fn = "none"
  /\ ret' = [fn |-> "extract_images", paths |-> extract_images(call.doc, 1)]
  /\ UNCHANGED <<mainvars, call>>

SpecImages == InitImages /\ [][CallImages]_vars


\* ------------------------------------------------------------------ claims

\* the scores of the candidates of the call's pool, in pool order
PoolScores == [k \in DOMAIN call.pool |-> Score(call.target, call.pool[k])]

\* candidate k has the greatest score of the pool, and none before it has
FirstBest(k) ==
  /\ \A j \in DOMAIN call.pool : Geq(PoolScores[k], PoolScores[j])
  /\ \A j \in 1..(k - 1) : ~SameScore(PoolScores[j], PoolScores[k])

NoMatch == ret.best = <<>> /\ ret.score = Zero

\* C5, as stated: best_fuzzy_match returns the first candidate of greatest
\* score and that score when the target is not empty and the greatest score
\* is at least the threshold, and the empty result with score 0.0 otherwise.
C5_FirstBestAtOrAboveThreshold ==
  ret.fn = "best_fuzzy_match" =>
    IF /\ call.target # <<>>
       /\ \E k \in DOMAIN call.pool :
            FirstBest(k) /\ Geq(PoolScores[k], call.threshold)
    THEN \E k \in DOMAIN call.pool :
           /\ FirstBest(k)
           /\ ret.best = call.pool[k]
           /\ SameScore(ret.score, PoolScores[k])
    ELSE NoMatch

\* C5, amended: best_fuzzy_match returns the first candidate of greatest
\* score and that score when the target is not empty and the greatest score
\* is more than 0 and at least the threshold; otherwise (an empty target, an
\* empty pool, a greatest score of 0 or one below the threshold) it returns
\* the empty result with score 0.0.  It never returns a candidate whose
\* score is below the threshold.
C5_FirstBestPositiveAtOrAboveThreshold ==
  ret.fn = "best_fuzzy_match" =>
    /\ IF /\ call.target # <<>>
          /\ \E k \in DOMAIN call.pool :
               /\ FirstBest(k)
               /\ Gt(PoolScores[k], Zero)
               /\ Geq(PoolScores[k], call.threshold)
       THEN \E k \in DOMAIN call.pool :
              /\ FirstBest(k)
              /\ ret.best = call.pool[k]
              /\ SameScore(ret.score, PoolScores[k])
       ELSE NoMatch
    /\ ret.best # <<>> => Geq(ret.score, call.threshold)

\* two different candidates tie with a score above 0 and the first is returned
C5_Witness ==
  /\ ret.fn = "best_fuzzy_match"
  /\ Len(call.pool) = 2
  /\ call.pool[1] # call.pool[2]
  /\ SameScore(PoolScores[1], PoolScores[2])
  /\ Gt(PoolScores[1], Zero)
  /\ ret.best = call.pool[1]
  /\ ret.best # <<>>

\* the images of the call's document that render, pass all three size
\* limits and save, as <<page, index>> from 1
Qualifying ==
  {q \in (DOMAIN call.doc) \X (1..MaxPerPage + 1) :
     /\ q[2] \in DOMAIN call.doc[q[1]]
     /\ LET img == call.doc[q[1]][q[2]]
        IN  /\ img.outcome = "ok"
            /\ img.w >= MIN_W
            /\ img.h >= MIN_H
            /\ img.w * img.h >= MIN_AREA}

Before(q, r) == q[1] < r[1] \/ (q[1] = r[1] /\ q[2] < r[2])

\* C8: extract_images returns exactly the images that render, save and are
\* at least MIN_W wide, MIN_H high and MIN_AREA large, in (page, index)
\* order: the k-th path names the k-th such image, whatever happened to the
\* other images of the document.
C8_ExactlyTheQualifyingImagesInOrder ==
  ret.fn = "extract_images" =>
    /\ Len(ret.paths) = Cardinality(Qualifying)
    /\ \A k \in DOMAIN ret.paths :
         \E q \in Qualifying :
           /\ Cardinality({r \in Qualifying : Before(r, q)}) = k - 1
           /\ ret.paths[k].fn = FileName(q[1], q[2])

\* a failing image on page 1, a kept one on page 2
C8_Witness ==
  /\ ret.fn = "extract_images"
  /\ Len(call.doc) = 2
  /\ Len(call.doc[1]) = 1
  /\ call.doc[1][1].outcome = "render_fails"
  /\ ret.paths = <<[dir |-> 1, fn |-> FileName(2, 1)]>>

\* a figure-label line starts at position j + 1 of s, or a marker line
TerminatorAt(s, j) ==
  /\ At(s, j) = "\n"
  /\ \/ At(s, j + 1) \in Markers
     \/ /\ At(s, j + 1) = "Figure"
        /\ At(s, j + 2) \in WS
        /\ LET d == SkipAll(s, j + 2, WS)
           IN  At(s, d) \in Digits \/ (At(s, d) = "S" /\ At(s, d + 1) \in Digits)

\* the positions of t where a line starts with a figure label
LabelLines(t) ==
  {k \in DOMAIN t : /\ k = 1 \/ t[k - 1] = "\n"
                    /\ LabelEnd(NormalizeFig(SubSeq(t, k, Len(t))), 1) # 0}

\* what C10 says of the captions, read against the text t
CaptionBlocks(t) ==
  LET ms == ret.matches
  IN  /\ Len(ret.captions) = Len(ms)
      \* one block per label line at least, and in text order
      /\ Len(ms) >= Cardinality(LabelLines(t))
      /\ \A k \in DOMAIN ms :
           /\ LabelEnd(t, ms[k][1]) # 0
           /\ ms[k][2] >= LabelEnd(t, ms[k][1])
           \* the block ends at the first terminator after its label
           /\ ms[k][2] = Len(t) + 1 \/ TerminatorAt(t, ms[k][2])
           /\ \A j \in LabelEnd(t, ms[k][1])..(ms[k][2] - 1) : ~TerminatorAt(t, j)
           /\ k > 1 => ms[k][1] >= ms[k - 1][2]
           /\ ret.captions[k] = CleanCaption(SubSeq(t, ms[k][1], ms[k][2] - 1))
      \* every label line starts a block
      /\ \A p \in LabelLines(t) : \E k \in DOMAIN ms : ms[k][1] = p
      \* no caption holds a following label line or a marker line
      /\ \A k \in DOMAIN ret.captions :
           \A j \in DOMAIN ret.captions[k] : ~TerminatorAt(ret.captions[k], j)

\* C10, as stated: the captions are the blocks of the text given: every
\* line of it that starts with a figure label starts a caption of its own,
\* and no caption holds a following figure-label line or a marker line.
C10_BlocksOfTheText ==
  ret.fn = "extract_captions" =>
    /\ Len(ret.captions) >= Cardinality(LabelLines(call.text))
    /\ \A k \in DOMAIN ret.captions :
         \A j \in DOMAIN ret.captions[k] : ~TerminatorAt(ret.captions[k], j)

\* C10, amended: the captions are the blocks of the text as rewritten by the
\* first step, which turns "Fig." and all white space after it, line breaks
\* included, into "Figure ": one block per figure-label line of the
\* rewritten text, in order, each ending at the first figure-label line or
\* marker line of the rewritten text after its label, or at the end.
C10_BlocksOfTheRewrittenText ==
  ret.fn = "extract_captions" => CaptionBlocks(NormalizeFig(call.text))

\* two consecutive label lines give two captions
C10_Witness ==
  /\ ret.fn = "extract_captions"
  /\ call.text = FigureLabel \o <<"a", "\n">> \o FigureLabel
  /\ ret.captions = <<FigureLabel \o <<"a">>, FigureLabel>>


\* ------------------------------------------------------- claims about main
IsHeading2(e) == e.k = "heading2"
IsInfo(e) == e.k = "info"
Headings(d) == SelectSeq(d, IsHeading2)

\* the elements written for the current file after its heading
CurrentBody ==
  LET hs == {k \in DOMAIN docx : docx[k].k = "heading2"}
      last == CHOOSE k \in hs : \A j \in hs : j <= k
  IN  SubSeq(docx, last + 1, Len(docx))

\* C1: when the pairs of a file are written, its section holds, for
\* n = the longer of images and captions, exactly n triples: a citation,
\* then image j or the "image not found" placeholder when there is no image
\* j, then caption j or the "caption not detected" placeholder when there is
\* no caption j; and for n = 0 the one "no figures" block.
C1_MaxPairsWithPlaceholders ==
  pc = "info" =>
    LET body == CurrentBody
        ni == Len(images)
        nc == Len(captions)
        n == IF ni >= nc THEN ni ELSE nc
    IN  IF n = 0
        THEN /\ Len(body) = 2
             /\ body[1].k = "citation"
             /\ body[2].k = "no_figures"
        ELSE /\ Len(body) = 3 * n
             /\ \A j \in 0..(n - 1) :
                  /\ body[3 * j + 1].k = "citation"
                  /\ IF j < ni
                     THEN \/ /\ body[3 * j + 2].k = "picture"
                             /\ body[3 * j + 2].x = images[j + 1]
                          \/ /\ body[3 * j + 2].k = "image_failed"
                             /\ body[3 * j + 2].x = images[j + 1].fn
                     ELSE body[3 * j + 2].k = "image_not_found"
                  /\ IF j < nc
                     THEN /\ body[3 * j + 3].k = "caption"
                          /\ body[3 * j + 3].x = captions[j + 1]
                     ELSE body[3 * j + 3].k = "caption_not_detected"

\* two images and one caption: the second caption is the placeholder
C1_Witness ==
  /\ pc = "info"
  /\ Len(images) = 2
  /\ Len(captions) = 1
  /\ Len(CurrentBody) = 6
  /\ docx[Len(docx)].k = "caption_not_detected"

\* C2, as stated: a failing file never aborts the batch: a run with input
\* files ends with every file given its row and its section and with the
\* composite document written.
C2_FailureNeverAbortsTheBatch ==
  (pc \in {"done", "aborted"} /\ found # {}) =>
    /\ outputs.docx_saved
    /\ Len(mapping_rows) = Len(pdf_files) + 1
    /\ Len(Headings(outputs.docx)) = Len(pdf_files)

\* C3, as stated: the handle of a file is closed when the processing of the
\* file ends, also when a step of it fails: at most one handle is open,
\* none when the next file is opened and none when the run has ended.
C3_HandleReleasedWhateverFails ==
  /\ Cardinality(open_handles) <= 1
  /\ pc = "open" => open_handles = {}
  /\ pc \in {"done", "aborted"} => open_handles = {}

\* C4: a run that finds no input file prints the diagnostic and returns:
\* it reads no citations, opens no document and writes no document, table,
\* image or image directory.
C4_NothingFoundNothingDone ==
  found = {} =>
    /\ pc \in {"start", "done"}
    /\ ~citations_read
    /\ open_handles = {}
    /\ docx = <<>> /\ mapping_rows = <<>>
    /\ ~outputs.docx_saved /\ ~outputs.csv_saved
    /\ dirs = {} /\ saved = <<>>
    /\ pc = "done" => printed = <<(<<"No PDFs found under:", "pdf_root">>)>>

C4_Witness == found = {} /\ pc = "done" /\ Len(printed) = 1

\* C6: the files are taken one at a time in the order of their paths; the
\* k-th section of the document and the k-th data row of the table, after
\* its header row, belong to the k-th path, and at the end there is one
\* section and one row for every input file.
C6_SectionsAndRowsInPathOrder ==
  /\ pc # "start" =>
       /\ Range(pdf_files) = found
       /\ \A k, l \in DOMAIN pdf_files : k < l => PathLess(pdf_files[k], pdf_files[l])
  /\ open_handles \subseteq {idx}
  /\ LET hs == Headings(docx)
     IN  /\ Len(hs) <= Len(pdf_files)
         /\ \A k \in DOMAIN hs : hs[k].x = k /\ hs[k].y = pdf_files[k]
  /\ mapping_rows # <<>> =>
       /\ mapping_rows[1] = Header
       /\ Len(mapping_rows) <= Len(pdf_files) + 1
       /\ \A k \in 2..Len(mapping_rows) : mapping_rows[k][1] = pdf_files[k - 1]
  /\ (pc = "done" /\ found # {}) =>
       /\ outputs.docx_saved
       /\ outputs.docx = docx
       /\ Len(Headings(docx)) = Len(pdf_files)
       /\ Len(SelectSeq(docx, IsInfo)) = Len(pdf_files)
       /\ outputs.csv_saved =>
            /\ outputs.csv = mapping_rows
            /\ Len(mapping_rows) = Len(pdf_files) + 1

\* two files, the document and the table written
C6_Witness ==
  /\ pc = "done"
  /\ Len(pdf_files) = 2
  /\ outputs.csv_saved
  /\ Len(outputs.csv) = 3
  /\ Len(Headings(outputs.docx)) = 2

\* C7, as stated: no two kept images are saved to the same path.
C7_NoTwoImagesAtOnePath ==
  \A k, l \in DOMAIN saved : saved[k].path = saved[l].path => k = l

=============================================================================
